---------------------------- MODULE Spec2Model ----------------------------
(* Long-running hardware operations of exopy_hqc_legacy:                   *)
(*   - the software ramp SetDCVoltageTask.smooth_set /                     *)
(*     SetDCCurrentTask.smooth_set (tasks/tasks/instr/dc_tasks.py);        *)
(*   - the field sweep of the CS4 magnet supply, waited on through an      *)
(*     InstrJob by ApplyMagFieldTask.perform.                              *)
(*                                                                         *)
(* Numbers.  A ramp value is an integer count of sub-units; Sub sub-units  *)
(* make one step of the grid on which round(x, 9) (voltage) or round(x, 6) *)
(* (current) puts a value.  The "already there" epsilon (1e-12 V, 1e-9 A)  *)
(* is a thousandth of that grid step, finer than one sub-unit, so          *)
(* abs(a - b) < epsilon is a = b on the values of the model.               *)
EXTENDS Integers, Sequences, FiniteSets, TLC

\* ------------------------------------------------------------------ bounds
\* sub-units per grid step of round()
Sub == 5
\* ramp values range over -MaxVal..MaxVal sub-units
MaxVal == 10
\* back_step ranges over 0..MaxStep sub-units
MaxStep == 5
\* the counters of setter calls and sleeps saturate here
MaxCount == 6
\* magnetic fields range over 0..MaxField units; one unit is more than the
\* supply's output_fluctuations
MaxField == 2
\* sweep rates range over 0..MaxRate field units per minute
MaxRate == 2
\* the counters of sleeps and polls of one wait saturate here; a wait of at
\* most 60 s polled every 3 s stays below it
MaxPolls == 22
\* each of two ramp tasks sharing a driver makes 1..MaxCalls setter calls
MaxCalls == 3
\* voltages asked of the Adwin range over -(AdwRange+1)..AdwRange+1 units, its
\* output range being -AdwRange..AdwRange (10.0 V in the code)
AdwRange == 3
\* number of DAC codes of the Adwin output (2**16 in the code)
AdwBins == 4

VARIABLES
    kind,         \* "voltage" (SetDCVoltageTask) or "current" (SetDCCurrentTask)
    target,       \* target_value handed to smooth_set
    current,      \* current_value handed to smooth_set
    back_step,    \* task.back_step
    safe_max,     \* task.safe_max, 0 = not configured
    safe_delta,   \* task.safe_delta, 0 = not configured (voltage only)
    should_stop,  \* root.should_stop.is_set()
    pc,           \* position of smooth_set
    last_value,   \* local last_value
    step,         \* local step
    hw,           \* value the instrument holds
    lastSet,      \* argument of the latest setter call (current_value before any)
    prevSet,      \* argument of the setter call before that
    nset,         \* number of setter calls, saturating at MaxCount
    nsleep,       \* number of time.sleep(delay) calls, saturating at MaxCount
    db,           \* database entry 'voltage'/'current': <<>> unwritten, <<v>> written
    outcome,      \* how smooth_set ended
    stopSeen,     \* a test of should_stop has returned true
    setAfterStop, \* a setter call was made after stopSeen
    snapped,      \* the final setter(value) of line 178/322 was called
    stopAtEntry,  \* should_stop was set when smooth_set was called
    \* --- CS4 magnet supply and ApplyMagFieldTask.perform
    heater_state,      \* CS4.heater_state: "On" or "Off"
    activity,          \* CS4.activity: "Hold" or "To set point"
    target_field,      \* CS4.target_field (ULIM)
    out_field,         \* what CS4.read_output_field() returns (IOUT?)
    pers_field,        \* what CS4.read_persistent_field() returns (IMAG?)
    field_sweep_rate,  \* CS4.field_sweep_rate
    fast_sweep_rate,   \* CS4.fast_sweep_rate
    field,             \* target_value of perform
    rate,              \* ApplyMagFieldTask.rate
    auto_stop_heater,  \* ApplyMagFieldTask.auto_stop_heater
    tpc,               \* position of perform
    waitNo,            \* the wait perform is at: 1 persistent, 2 target, 3 zero
    sweepRate,         \* local rate of sweep_to_field
    jobState,          \* state of the InstrJob bound to job ("none" before any)
    waitNum,           \* the Job's timeout_seconds is waitNum / waitDen
    waitDen,
    elapsed,           \* seconds slept in the current wait_for_completion
    nSleep,            \* sleeps of the current wait_for_completion
    nCheck,            \* completion_check evaluations of the current wait
    nPoll,             \* is_interrupted evaluations of the current wait
    nCancel,           \* calls of the Job's on_cancel (CS4.stop_sweep)
    nTimeout,          \* calls of the Job's on_timeout (CS4.stop_sweep_safe)
    waitResult,        \* how the latest wait_for_completion ended
    perfResult,        \* how perform ended
    dbField,           \* database entry 'field': <<>> unwritten, <<v>> written
    \* --- two ramp tasks "A" and "B" run in parallel on one driver
    owner,             \* driver.owner
    opc,               \* position of each task's i_perform
    oleft,             \* setter calls each task's smooth_set has still to make
    ramping,           \* tasks between their first setter call and their return
    interleaved,       \* a setter call was made while another task was ramping
    foreign,           \* a command was issued by a task that was not the owner
    \* --- Adwin.set_voltage called by AdwinSetVoltageInterface.perform
    adwVoltage,        \* value handed to set_voltage
    adwChannel,        \* out_channel
    apc,               \* position of perform / set_voltage
    par11,             \* Par 11: 1 = set the voltage
    par12,             \* Par 12: output channel
    par13,             \* Par 13: DAC code
    par14,             \* Par 14: 1 = the onboard process is still running
    procRunning,       \* process 1 has been started and not stopped
    nAdwPoll,          \* polls of Par 14, saturating at MaxCount
    adwDb              \* database entry 'voltage' of the Adwin task

rampVars == <<kind, target, current, back_step, safe_max, safe_delta,
              should_stop, pc, last_value, step, hw, lastSet, prevSet, nset,
              nsleep, db, outcome, stopSeen, setAfterStop, snapped,
              stopAtEntry>>

magVars == <<heater_state, activity, target_field, out_field, pers_field,
             field_sweep_rate, fast_sweep_rate, field, rate, auto_stop_heater,
             tpc, waitNo, sweepRate, jobState, waitNum, waitDen, elapsed,
             nSleep, nCheck, nPoll, nCancel, nTimeout, waitResult,
             perfResult, dbField>>

ownVars == <<owner, opc, oleft, ramping, interleaved, foreign>>

adwVars == <<adwVoltage, adwChannel, apc, par11, par12, par13, par14,
             procRunning, nAdwPoll, adwDb>>

vars == <<rampVars, magVars, ownVars, adwVars>>

NoValue == <<>>

Abs(x) == IF x < 0 THEN -x ELSE x

Bump(n) == IF n < MaxCount THEN n + 1 ELSE n

BumpPoll(n) == IF n < MaxPolls THEN n + 1 ELSE n

\* round(x, ndigits): nearest grid point, an exact tie going to the even one
RoundGrid(x) ==
    LET q == x \div Sub
        r == x % Sub
    IN  IF 2 * r < Sub THEN q * Sub
        ELSE IF 2 * r > Sub THEN (q + 1) * Sub
        ELSE IF q % 2 = 0 THEN q * Sub ELSE (q + 1) * Sub


\* ------------------------------------------------- smooth_set (dc_tasks.py)
Kinds == {"voltage", "current"}

\* the distance taken without abs(): only a move downwards is ever too far
TooFarFromCurrent_Signed ==
    kind = "voltage" /\ safe_delta # 0 /\ current - target > safe_delta

\* line 142: self.safe_delta and abs(current_value-value) > self.safe_delta;
\* SetDCCurrentTask has no safe_delta and makes no such test
TooFarFromCurrent ==
    kind = "voltage" /\ safe_delta # 0 /\ Abs(current - target) > safe_delta

\* the ceiling compared with the signed value (abs() forgotten)
ExceedsSafeMax_Signed == safe_max # 0 /\ safe_max < target

\* lines 146 and 290: self.safe_max and self.safe_max < abs(value)
ExceedsSafeMax == safe_max # 0 /\ safe_max < Abs(target)

\* the epsilon test written so that it is never true (abs(...) < 0)
AlreadyThere_Never == Abs(current - target) < 0

\* lines 152 and 296: abs(last_value - value) < 1e-12 (1e-9)
AlreadyThere == Abs(current - target) = 0

\* the step taken without its sign
StepOf_Unsigned(value, last) == back_step

\* lines 162-165 and 306-309
StepOf(value, last) ==
    IF (value - last) * back_step > 0 THEN back_step ELSE -back_step

\* lines 167, 172 and 311, 316: abs(value-last_value) > abs(step)
FartherThanStep(value, last, st) == Abs(value - last) > Abs(st)

\* lines 170 and 314: round(last_value + step, 9) (, 6)
NextValue(last, st) == RoundGrid(last + st)

\* the final call made with the target put on the rounding grid
FinalValue_Rounded == RoundGrid(target)

\* lines 178 and 322: the argument of the final setter call
FinalValue == target

\* the target recorded although the ramp was stopped
AbortValue_Target == target

\* lines 182 and 326: the value recorded when the stop signal was seen
AbortValue == last_value

\* setattr(self.driver, 'voltage', value): the call is made with v and either
\* succeeds (ok) or raises. A driver's setter writes the value, then reads it
\* back (QDac2Channel.voltage: write, query, raise on a mismatch), so a call
\* that raises may have raised before the write or after it reached the
\* instrument.
Setter(v, ok) ==
    /\ prevSet' = lastSet
    /\ lastSet' = v
    /\ nset' = Bump(nset)
    /\ hw' \in IF ok THEN {v} ELSE {hw, v}
    /\ setAfterStop' = (setAfterStop \/ stopSeen)

NoSetter == UNCHANGED <<prevSet, lastSet, nset, hw, setAfterStop>>

Inputs ==
    UNCHANGED <<kind, target, current, back_step, safe_max, safe_delta,
                stopAtEntry>>

\* neither ApplyMagFieldTask nor the tasks of the other studies run while a
\* ramp does
MagFrame == UNCHANGED <<magVars, ownVars, adwVars>>

RampInit ==
    /\ kind \in Kinds
    /\ target \in -MaxVal..MaxVal
    /\ current \in -MaxVal..MaxVal
    /\ back_step \in 0..MaxStep
    /\ safe_max \in {0, MaxVal - 2, MaxVal - 1}
    /\ safe_delta \in IF kind = "voltage" THEN {0, MaxVal} ELSE {0}
    /\ should_stop \in BOOLEAN
    /\ stopAtEntry = should_stop
    /\ pc = "start"
    /\ last_value = current
    /\ step = 0
    /\ hw = current
    /\ lastSet = current
    /\ prevSet = current
    /\ nset = 0
    /\ nsleep = 0
    /\ db = NoValue
    /\ outcome = "running"
    /\ stopSeen = FALSE
    /\ setAfterStop = FALSE
    /\ snapped = FALSE

\* lines 142-148 and 290-292: the two validations, each raising ValueError
Reject ==
    /\ pc = "start"
    /\ TooFarFromCurrent \/ ExceedsSafeMax
    /\ pc' = "done"
    /\ outcome' = "rejected"
    /\ NoSetter
    /\ UNCHANGED <<should_stop, last_value, step, nsleep, db, stopSeen, snapped>>
    /\ Inputs /\ MagFrame

\* lines 152-154 and 296-298
NoOp ==
    /\ pc = "start"
    /\ ~(TooFarFromCurrent \/ ExceedsSafeMax)
    /\ AlreadyThere
    /\ db' = <<target>>
    /\ pc' = "done"
    /\ outcome' = "noop"
    /\ NoSetter
    /\ UNCHANGED <<should_stop, last_value, step, nsleep, stopSeen, snapped>>
    /\ Inputs /\ MagFrame

\* the back_step == 0 branch left out: the request falls into the stepped ramp
\* with a step of zero
DirectSet_Stepped ==
    /\ pc = "start"
    /\ ~(TooFarFromCurrent \/ ExceedsSafeMax)
    /\ ~AlreadyThere
    /\ back_step = 0
    /\ step' = StepOf(target, last_value)
    /\ pc' = IF FartherThanStep(target, last_value, step')
             THEN "while" ELSE "final"
    /\ NoSetter
    /\ UNCHANGED <<should_stop, last_value, nsleep, db, outcome, stopSeen, snapped>>
    /\ Inputs /\ MagFrame

\* lines 156-159 and 300-303: the database is written, then the setter called
DirectSet ==
    /\ pc = "start"
    /\ ~(TooFarFromCurrent \/ ExceedsSafeMax)
    /\ ~AlreadyThere
    /\ back_step = 0
    /\ db' = <<target>>
    /\ \E ok \in BOOLEAN :
          /\ Setter(target, ok)
          /\ outcome' = IF ok THEN "completed" ELSE "failed"
    /\ pc' = "done"
    /\ UNCHANGED <<should_stop, last_value, step, nsleep, stopSeen, snapped>>
    /\ Inputs /\ MagFrame

\* lines 161-167 and 305-311: the step is chosen and the loop entered or skipped
ChooseStep ==
    /\ pc = "start"
    /\ ~(TooFarFromCurrent \/ ExceedsSafeMax)
    /\ ~AlreadyThere
    /\ back_step # 0
    /\ step' = StepOf(target, last_value)
    /\ pc' = IF FartherThanStep(target, last_value, step')
             THEN "while" ELSE "final"
    /\ NoSetter
    /\ UNCHANGED <<should_stop, last_value, nsleep, db, outcome, stopSeen, snapped>>
    /\ Inputs /\ MagFrame

\* lines 168 and 312: while not self.root.should_stop.is_set()
LoopTest ==
    /\ pc = "while"
    /\ stopSeen' = (stopSeen \/ should_stop)
    /\ pc' = IF should_stop THEN "final" ELSE "body"
    /\ NoSetter
    /\ UNCHANGED <<should_stop, last_value, step, nsleep, db, outcome, snapped>>
    /\ Inputs /\ MagFrame

\* lines 170-175 and 314-319: one step of the ramp, then sleep or break
LoopBody ==
    /\ pc = "body"
    /\ last_value' = NextValue(last_value, step)
    /\ \E ok \in BOOLEAN :
          /\ Setter(last_value', ok)
          /\ IF ~ok
             THEN /\ pc' = "done"
                  /\ outcome' = "failed"
                  /\ nsleep' = nsleep
             ELSE IF FartherThanStep(target, last_value', step)
             THEN /\ pc' = "while"
                  /\ nsleep' = Bump(nsleep)
                  /\ outcome' = outcome
             ELSE /\ pc' = "final"
                  /\ nsleep' = nsleep
                  /\ outcome' = outcome
    /\ UNCHANGED <<should_stop, step, db, stopSeen, snapped>>
    /\ Inputs /\ MagFrame

\* the final setter(value) made without looking at the stop signal
FinalSet_Unguarded ==
    /\ pc = "final"
    /\ snapped' = TRUE
    /\ \E ok \in BOOLEAN :
          /\ Setter(FinalValue, ok)
          /\ IF ok
             THEN db' = <<FinalValue>> /\ outcome' = "completed"
             ELSE db' = db /\ outcome' = "failed"
    /\ pc' = "done"
    /\ UNCHANGED <<should_stop, last_value, step, nsleep, stopSeen>>
    /\ Inputs /\ MagFrame

\* lines 177-180 and 321-324: the stop signal is clear, the target is set and
\* recorded
FinalSet ==
    /\ pc = "final"
    /\ ~should_stop
    /\ snapped' = TRUE
    /\ \E ok \in BOOLEAN :
          /\ Setter(FinalValue, ok)
          /\ IF ok
             THEN db' = <<FinalValue>> /\ outcome' = "completed"
             ELSE db' = db /\ outcome' = "failed"
    /\ pc' = "done"
    /\ UNCHANGED <<should_stop, last_value, step, nsleep, stopSeen>>
    /\ Inputs /\ MagFrame

\* lines 177 and 182 (321 and 326): the stop signal is set, the last value is
\* recorded
Abort ==
    /\ pc = "final"
    /\ should_stop
    /\ stopSeen' = TRUE
    /\ db' = <<AbortValue>>
    /\ pc' = "done"
    /\ outcome' = "aborted"
    /\ NoSetter
    /\ UNCHANGED <<should_stop, last_value, step, nsleep, snapped>>
    /\ Inputs /\ MagFrame

\* another thread sets root.should_stop while smooth_set runs
SetStop ==
    /\ pc # "done"
    /\ ~should_stop
    /\ should_stop' = TRUE
    /\ NoSetter
    /\ UNCHANGED <<pc, last_value, step, nsleep, db, outcome, stopSeen, snapped>>
    /\ Inputs /\ MagFrame

RampNext ==
    \/ Reject
    \/ NoOp
    \/ DirectSet
    \/ ChooseStep
    \/ LoopTest
    \/ LoopBody
    \/ FinalSet
    \/ Abort
    \/ SetStop

\* the magnet task idle while a ramp is studied
MagIdle ==
    /\ heater_state = "Off"
    /\ activity = "Hold"
    /\ target_field = 0
    /\ out_field = 0
    /\ pers_field = 0
    /\ field_sweep_rate = 1
    /\ fast_sweep_rate = 1
    /\ field = 0
    /\ rate = 1
    /\ auto_stop_heater = TRUE
    /\ tpc = "idle"
    /\ waitNo = 0
    /\ sweepRate = 0
    /\ jobState = "none"
    /\ waitNum = 0
    /\ waitDen = 1
    /\ elapsed = 0
    /\ nSleep = 0
    /\ nCheck = 0
    /\ nPoll = 0
    /\ nCancel = 0
    /\ nTimeout = 0
    /\ waitResult = "none"
    /\ perfResult = "none"
    /\ dbField = <<>>

Tasks == {"A", "B"}

\* the two parallel ramp tasks idle
OwnIdle ==
    /\ owner = "none"
    /\ opc = [t \in Tasks |-> "done"]
    /\ oleft = [t \in Tasks |-> 0]
    /\ ramping = {}
    /\ interleaved = FALSE
    /\ foreign = FALSE

\* the Adwin task idle
AdwIdle ==
    /\ adwVoltage = 0
    /\ adwChannel = 1
    /\ apc = "idle"
    /\ par11 = 0
    /\ par12 = 0
    /\ par13 = 0
    /\ par14 = 0
    /\ procRunning = FALSE
    /\ nAdwPoll = 0
    /\ adwDb = <<>>

Init == RampInit /\ MagIdle /\ OwnIdle /\ AdwIdle

Next == RampNext

Spec == Init /\ [][Next]_vars

\* the steps of the thread that runs smooth_set
RampSteps ==
    \/ Reject
    \/ NoOp
    \/ DirectSet
    \/ ChooseStep
    \/ LoopTest
    \/ LoopBody
    \/ FinalSet
    \/ Abort

\* the thread that runs smooth_set keeps running: the setter and time.sleep
\* return. Nothing is assumed of the stop signal.
RampLive == Init /\ [][Next]_vars /\ WF_vars(RampSteps)


\* ------------------------------------------------------ claims on smooth_set
Between(a, x, b) == (a <= x /\ x <= b) \/ (b <= x /\ x <= a)

\* C1: when a safety ceiling is configured and |target| exceeds it, smooth_set
\* ends by raising the validation error, and no setter call has been made,
\* the instrument is untouched and the database unwritten
C1_SafetyRejection ==
    (safe_max # 0 /\ Abs(target) > safe_max) =>
        /\ nset = 0
        /\ hw = current
        /\ db = NoValue
        /\ pc = "done" => outcome = "rejected"

C1_Witness ==
    /\ pc = "done"
    /\ outcome = "rejected"
    /\ safe_max # 0
    /\ Abs(target) > safe_max
    /\ ~TooFarFromCurrent

\* C2: with back_step > 0 every value passed to the setter differs from the
\* one passed before it (from current_value for the first) by at most back_step
C2_StepBound ==
    (back_step > 0 /\ nset > 0) => Abs(lastSet - prevSet) <= back_step

\* C3: every value passed to the setter lies between current_value and
\* target_value, and successive values never move away from the target
C3_NoOvershoot ==
    nset > 0 =>
        /\ Between(current, lastSet, target)
        /\ Between(prevSet, lastSet, target)

\* C4: an accepted smooth_set that is not a no-op, saw no stop signal and whose
\* setter did not fail ends with target_value as the argument of its last
\* setter call, in the instrument and in the database
C4_ExactLanding ==
    (pc = "done" /\ ~stopSeen /\ outcome \notin {"rejected", "noop", "failed"}) =>
        /\ nset > 0
        /\ lastSet = target
        /\ hw = target
        /\ db = <<target>>

C4_Witness ==
    /\ pc = "done"
    /\ outcome = "completed"
    /\ back_step > 0
    /\ nset >= 2
    /\ Abs(target - current) % back_step # 0
    /\ target # RoundGrid(target)
    /\ lastSet = target

C13_MaxDeltaRejection ==
    (kind = "voltage" /\ safe_delta # 0 /\ Abs(current - target) > safe_delta) =>
        /\ nset = 0
        /\ hw = current
        /\ db = NoValue
        /\ pc = "done" => outcome = "rejected"

C13_Witness ==
    /\ pc = "done"
    /\ outcome = "rejected"
    /\ kind = "voltage"
    /\ safe_delta # 0
    /\ Abs(current - target) > safe_delta
    /\ ~ExceedsSafeMax
    /\ nset = 0
    /\ db = NoValue

\* C14 as stated: smooth_set(x, setter, x) passes validation, makes no setter
\* call, records target_value and returns normally, whatever back_step is
C14_NoOpAlways ==
    (current = target /\ pc = "done") =>
        /\ outcome = "noop"
        /\ nset = 0
        /\ db = <<target>>

\* C14: smooth_set(x, setter, x) with |x| within the safety ceiling (or no
\* ceiling configured) makes no setter call, leaves the instrument alone,
\* records target_value and returns normally, whatever back_step is; with |x|
\* above the ceiling it is rejected like any other request
C14_NoOp ==
    current = target =>
        /\ nset = 0
        /\ hw = current
        /\ pc = "done" =>
              IF ExceedsSafeMax
              THEN outcome = "rejected" /\ db = NoValue
              ELSE outcome = "noop" /\ db = <<target>>

C14_Witness ==
    /\ pc = "done"
    /\ current = target
    /\ outcome = "noop"
    /\ back_step = 0
    /\ safe_max # 0
    /\ nset = 0
    /\ db = <<target>>

\* the direction of a ramp
Dir == IF target > current THEN 1 ELSE -1

\* the calls of a stepped ramp so far are current + k*Dir*back_step for
\* k = 1, 2, ..., each made while more than back_step remained before it, and
\* then the target once no more than back_step remains
CallsAreMultiples ==
    IF snapped
    THEN /\ lastSet = target
         /\ prevSet = current + (nset - 1) * Dir * back_step
         /\ Abs(target - prevSet) <= back_step
    ELSE /\ lastSet = current + nset * Dir * back_step
         /\ Abs(target - prevSet) > back_step

C19_InterStepDelay ==
    (back_step > 0 /\ nset >= 2 /\ nset < MaxCount) => nsleep >= nset - 1

\* C20: when a setter call raises, smooth_set ends at once with that failure,
\* and the instrument holds the last value for which the setter succeeded
\* (current_value if none did)
C20_FailureLeavesLastGood ==
    outcome = "failed" =>
        /\ pc = "done"
        /\ hw = prevSet


\* C21: with back_step = 0, an accepted request that is not already at the
\* target makes exactly one setter call, with target_value, and no sleep,
\* whatever the distance between current_value and target_value
C21_FastPath ==
    back_step = 0 =>
        /\ nset <= 1
        /\ nsleep = 0
        /\ (pc = "done" /\ outcome \notin {"rejected", "noop"}) =>
              (nset = 1 /\ lastSet = target)

C21_Witness ==
    /\ pc = "done"
    /\ back_step = 0
    /\ outcome = "completed"
    /\ Abs(target - current) = 2 * MaxVal
    /\ nset = 1
    /\ lastSet = target
    /\ nsleep = 0

\* C25: with the stop signal never set smooth_set returns, whatever
\* back_step > 0 is
C25_RampEnds == <>(pc = "done" \/ should_stop)

\* C27 as stated: when the stop signal is set at the call, no setter call is
\* made on any path and an accepted call records current_value
C27_StopAtEntryAlways ==
    stopAtEntry =>
        /\ nset = 0
        /\ (pc = "done" /\ outcome # "rejected") => db = <<current>>

\* C27: when the stop signal is set at the call and back_step > 0 (stepped
\* ramp or single final step), no setter call is made and an accepted call
\* records current_value; the direct write of back_step = 0 does not look at
\* the stop signal
C27_StopAtEntry ==
    (stopAtEntry /\ back_step > 0) =>
        /\ nset = 0
        /\ hw = current
        /\ (pc = "done" /\ outcome # "rejected") => db = <<current>>

C27_Witness ==
    /\ stopAtEntry
    /\ back_step > 0
    /\ pc = "done"
    /\ outcome = "aborted"
    /\ Abs(target - current) > back_step
    /\ nset = 0
    /\ db = <<current>>

\* C28: when a ceiling is configured, the request accepted and current_value
\* within the ceiling, every value passed to the setter is within the ceiling
C28_CeilingAlongRamp ==
    (/\ safe_max # 0
     /\ Abs(target) <= safe_max
     /\ Abs(current) <= safe_max
     /\ nset > 0) => Abs(lastSet) <= safe_max

\* C30: a value written to the database is current_value or a value for which
\* the setter has succeeded in this call; the database never holds
\* target_value after setter(target_value) has raised
C30_RecordedMatchesHardware ==
    db # NoValue =>
        \/ db = <<current>>
        \/ nset > 0 /\ db = <<lastSet>> /\ outcome # "failed"


\* --------------------------------- CS4 driver, InstrJob, ApplyMagFieldTask
\* timeout=60 of the three wait_for_completion calls
WaitTimeout == 60
\* refresh_time=3 of the waits on the sweeps to the persistent field and to zero
RefreshShort == 3
\* refresh_time=10 of the wait on the sweep to the target field
RefreshLong == 10
\* wait = 60 * span / rate
SecondsPerMinute == 60

\* a refresh_time of zero
Refresh_Zero == 0 * RefreshShort

\* refresh_time=10 passed to every wait
Refresh_AlwaysLong == RefreshLong

\* the refresh_time argument of the wait perform is at: lines 69, 82 and 104
Refresh == IF waitNo = 2 THEN RefreshLong ELSE RefreshShort

RampIdle ==
    /\ kind = "voltage"
    /\ target = 0
    /\ current = 0
    /\ back_step = 0
    /\ safe_max = 0
    /\ safe_delta = 0
    /\ pc = "done"
    /\ last_value = 0
    /\ step = 0
    /\ hw = 0
    /\ lastSet = 0
    /\ prevSet = 0
    /\ nset = 0
    /\ nsleep = 0
    /\ db = NoValue
    /\ outcome = "noop"
    /\ stopSeen = FALSE
    /\ setAfterStop = FALSE
    /\ snapped = FALSE
    /\ stopAtEntry = FALSE

RampFrame ==
    UNCHANGED <<kind, target, current, back_step, safe_max, safe_delta, pc,
                last_value, step, hw, lastSet, prevSet, nset, nsleep, db,
                outcome, stopSeen, setAfterStop, snapped, stopAtEntry,
                ownVars, adwVars>>

TaskInputs == UNCHANGED <<field, rate, auto_stop_heater, fast_sweep_rate>>

JobFrame ==
    UNCHANGED <<jobState, waitNum, waitDen, elapsed, nSleep, nCheck, nPoll,
                nCancel, nTimeout, waitResult>>

\* the persistent field is compared with the switch heater conducting only
\* when it has followed the output
MagInit ==
    /\ heater_state \in {"On", "Off"}
    /\ activity = "Hold"
    /\ out_field \in 0..MaxField
    /\ pers_field \in IF heater_state = "On" THEN {out_field} ELSE 0..MaxField
    /\ target_field = out_field
    /\ field_sweep_rate = 1
    /\ fast_sweep_rate \in 1..MaxRate
    /\ field \in 0..MaxField
    /\ rate \in 0..MaxRate
    /\ auto_stop_heater \in BOOLEAN
    /\ should_stop \in BOOLEAN
    /\ tpc = "start"
    /\ waitNo = 0
    /\ sweepRate = 0
    /\ jobState = "none"
    /\ waitNum = 0
    /\ waitDen = 1
    /\ elapsed = 0
    /\ nSleep = 0
    /\ nCheck = 0
    /\ nPoll = 0
    /\ nCancel = 0
    /\ nTimeout = 0
    /\ waitResult = "none"
    /\ perfResult = "running"
    /\ dbField = <<>>

\* the stop signal never looked at
check_for_interruption_Never == FALSE

\* ApplyMagFieldTask.check_for_interruption
check_for_interruption == should_stop

\* the persistent field read in place of the output field
is_target_reached_Persistent == Abs(pers_field - target_field) = 0

\* CS4.is_target_reached: abs(read_output_field() - target_field) <
\* output_fluctuations
is_target_reached == Abs(out_field - target_field) = 0

\* CS4 defines no attribute post_switch_wait (only ApplyMagFieldTask does), so
\* the last line of CS4.stop_sweep_safe, sleep(self.post_switch_wait), raises
\* AttributeError
PostSwitchWaitDefined == FALSE

\* the supply sweeps its output towards ULIM while in 'To set point'; with the
\* switch heater on the magnet follows the output
HwSweep ==
    /\ tpc \notin {"start", "done"}
    /\ activity = "To set point"
    /\ out_field # target_field
    /\ out_field' = IF out_field < target_field THEN out_field + 1
                    ELSE out_field - 1
    /\ pers_field' = IF heater_state = "On" THEN out_field' ELSE pers_field
    /\ UNCHANGED <<heater_state, activity, target_field, field_sweep_rate,
                   tpc, waitNo, sweepRate, perfResult, dbField, should_stop>>
    /\ JobFrame /\ TaskInputs /\ RampFrame

\* another thread sets root.should_stop while perform runs
MagSetStop ==
    /\ tpc \notin {"done"}
    /\ ~should_stop
    /\ should_stop' = TRUE
    /\ UNCHANGED <<heater_state, activity, target_field, out_field, pers_field,
                   field_sweep_rate, tpc, waitNo, sweepRate, perfResult,
                   dbField>>
    /\ JobFrame /\ TaskInputs /\ RampFrame

\* perform, lines 54-66: the heater is off and the output is first swept to
\* the persistent field, or the heater is on and the fields are compared
PerformStart ==
    /\ tpc = "start"
    /\ IF heater_state = "Off"
       THEN waitNo' = 1 /\ tpc' = "sweep"
       ELSE waitNo' = 0 /\ tpc' = "compare"
    /\ UNCHANGED <<heater_state, activity, target_field, out_field, pers_field,
                   field_sweep_rate, sweepRate, perfResult, dbField,
                   should_stop>>
    /\ JobFrame /\ TaskInputs /\ RampFrame

\* the first sweep made to the target of perform, not to the persistent field
SweepValue_Target == IF waitNo = 3 THEN 0 ELSE field

\* the arguments of the sweep_to_field call of each wait: lines 66 and 141
\* (read_persistent_field(), no rate), 77 (target_value, self.rate) and 102
\* (0, driver.fast_sweep_rate)
SweepValue == IF waitNo = 1 THEN pers_field ELSE IF waitNo = 2 THEN field ELSE 0

\* CS4.sweep_to_field, lines 148-158: rate, target and the order to sweep
SweepStart ==
    /\ tpc = "sweep"
    /\ field_sweep_rate' = IF waitNo = 1 THEN field_sweep_rate
                           ELSE IF waitNo = 2 THEN rate ELSE fast_sweep_rate
    /\ sweepRate' = IF heater_state = "On" THEN field_sweep_rate'
                    ELSE fast_sweep_rate
    /\ target_field' = SweepValue
    /\ activity' = "To set point"
    /\ tpc' = "make_job"
    /\ UNCHANGED <<heater_state, out_field, pers_field, waitNo, perfResult,
                   dbField, should_stop>>
    /\ JobFrame /\ TaskInputs /\ RampFrame

\* CS4.sweep_to_field, lines 161-168: span, wait and the InstrJob; a rate of 0
\* makes 60 * span / rate raise ZeroDivisionError
SweepMakeJob ==
    /\ tpc = "make_job"
    /\ IF sweepRate = 0
       THEN /\ perfResult' = "ZeroDivisionError"
            /\ tpc' = "done"
            /\ JobFrame
       ELSE /\ waitNum' = SecondsPerMinute * Abs(out_field - target_field)
            /\ waitDen' = sweepRate
            /\ jobState' = "Pending"
            /\ elapsed' = 0
            /\ nSleep' = 0
            /\ nCheck' = 0
            /\ nPoll' = 0
            /\ nCancel' = 0
            /\ nTimeout' = 0
            /\ waitResult' = "none"
            /\ perfResult' = perfResult
            /\ tpc' = "wait_sleep"
    /\ UNCHANGED <<heater_state, activity, target_field, out_field, pers_field,
                   field_sweep_rate, waitNo, sweepRate, dbField, should_stop>>
    /\ TaskInputs /\ RampFrame

\* CS4.stop_sweep, the Job's on_cancel. Every action that may call it or
\* stop_sweep_safe sets activity and heater_state through one of these three.
StopSweep == activity' = "Hold" /\ heater_state' = heater_state

\* CS4.stop_sweep_safe, the Job's on_timeout, up to its last line
StopSweepSafe == activity' = "Hold" /\ heater_state' = "Off"

NoStop == activity' = activity /\ heater_state' = heater_state

\* InstrJob: elapsed time exceeds the smaller of the timeout argument and the
\* Job's timeout_seconds
DeadlinePassed == elapsed > WaitTimeout \/ elapsed * waitDen > waitNum

\* InstrJob.wait_for_completion, (a): sleep refresh_time
WaitSleep ==
    /\ tpc = "wait_sleep"
    /\ elapsed' = elapsed + Refresh
    /\ nSleep' = BumpPoll(nSleep)
    /\ tpc' = "wait_poll"
    /\ UNCHANGED <<heater_state, activity, target_field, out_field, pers_field,
                   field_sweep_rate, waitNo, sweepRate, perfResult, dbField,
                   should_stop, jobState, waitNum, waitDen, nCheck, nPoll,
                   nCancel, nTimeout, waitResult>>
    /\ TaskInputs /\ RampFrame

\* InstrJob.wait_for_completion, (b): is_interrupted() is true; on_cancel runs,
\* the Job is Cancelled and False returned
WaitCancelled ==
    /\ tpc = "wait_poll"
    /\ nPoll' = BumpPoll(nPoll)
    /\ check_for_interruption
    /\ StopSweep
    /\ nCancel' = nCancel + 1
    /\ jobState' = "Cancelled"
    /\ waitResult' = "False"
    /\ tpc' = "after_wait"
    /\ UNCHANGED <<target_field, out_field, pers_field, field_sweep_rate,
                   waitNo, sweepRate, perfResult, dbField, should_stop,
                   waitNum, waitDen, elapsed, nSleep, nCheck, nTimeout>>
    /\ TaskInputs /\ RampFrame

\* InstrJob.wait_for_completion, (c): the deadline has passed; on_timeout runs,
\* then the Job is TimedOut and InstrTimeoutError raised. An error raised by
\* on_timeout itself leaves the wait in its place.
WaitTimedOut ==
    /\ tpc = "wait_poll"
    /\ nPoll' = BumpPoll(nPoll)
    /\ ~check_for_interruption
    /\ DeadlinePassed
    /\ StopSweepSafe
    /\ nTimeout' = nTimeout + 1
    /\ IF PostSwitchWaitDefined
       THEN jobState' = "TimedOut" /\ waitResult' = "InstrTimeoutError"
       ELSE jobState' = jobState /\ waitResult' = "AttributeError"
    /\ tpc' = "after_wait"
    /\ UNCHANGED <<target_field, out_field, pers_field, field_sweep_rate,
                   waitNo, sweepRate, perfResult, dbField, should_stop,
                   waitNum, waitDen, elapsed, nSleep, nCheck, nCancel>>
    /\ TaskInputs /\ RampFrame

\* a poll that finds the target not reached polls again without sleeping
WaitChecked_Spin ==
    /\ tpc = "wait_poll"
    /\ nPoll' = BumpPoll(nPoll)
    /\ ~check_for_interruption
    /\ ~DeadlinePassed
    /\ nCheck' = BumpPoll(nCheck)
    /\ IF is_target_reached
       THEN jobState' = "Completed" /\ waitResult' = "True" /\ tpc' = "after_wait"
       ELSE jobState' = jobState /\ waitResult' = waitResult /\ tpc' = "wait_poll"
    /\ NoStop
    /\ UNCHANGED <<target_field, out_field, pers_field, field_sweep_rate,
                   waitNo, sweepRate, perfResult, dbField, should_stop,
                   waitNum, waitDen, elapsed, nSleep, nCancel, nTimeout>>
    /\ TaskInputs /\ RampFrame

\* InstrJob.wait_for_completion, (d): completion_check() is evaluated; true
\* makes the Job Completed and returns True, false goes back to sleep
WaitChecked ==
    /\ tpc = "wait_poll"
    /\ nPoll' = BumpPoll(nPoll)
    /\ ~check_for_interruption
    /\ ~DeadlinePassed
    /\ nCheck' = BumpPoll(nCheck)
    /\ IF is_target_reached
       THEN jobState' = "Completed" /\ waitResult' = "True" /\ tpc' = "after_wait"
       ELSE jobState' = jobState /\ waitResult' = waitResult /\ tpc' = "wait_sleep"
    /\ NoStop
    /\ UNCHANGED <<target_field, out_field, pers_field, field_sweep_rate,
                   waitNo, sweepRate, perfResult, dbField, should_stop,
                   waitNum, waitDen, elapsed, nSleep, nCancel, nTimeout>>
    /\ TaskInputs /\ RampFrame

\* cancel() that does not look at the state of the Job
JobCancel_Unguarded ==
    StopSweep /\ nCancel' = nCancel + 1 /\ jobState' = "Cancelled"

\* InstrJob.cancel(): on a Pending Job on_cancel runs once and the Job is
\* Cancelled; on a terminal Job nothing happens
JobCancel ==
    IF jobState = "Pending"
    THEN StopSweep /\ nCancel' = nCancel + 1 /\ jobState' = "Cancelled"
    ELSE NoStop /\ nCancel' = nCancel /\ jobState' = jobState

\* driver.stop_sweep() called on the driver, past the Job
DirectStopSweep == StopSweep /\ nCancel' = nCancel + 1 /\ jobState' = jobState

\* perform, line 94: job.cancel()
CancelAfterStop == JobCancel

\* perform, lines 67-72: after the wait on the sweep to the persistent field
AfterPersistentWait ==
    /\ tpc = "after_wait"
    /\ waitNo = 1
    /\ IF waitResult = "True"
       THEN /\ heater_state' = "On"
            /\ tpc' = "compare"
            /\ perfResult' = perfResult
       ELSE /\ heater_state' = heater_state
            /\ tpc' = "done"
            /\ perfResult' = waitResult
    /\ UNCHANGED <<activity, target_field, out_field, pers_field,
                   field_sweep_rate, waitNo, sweepRate, dbField, should_stop>>
    /\ JobFrame /\ TaskInputs /\ RampFrame

\* perform, lines 74-77: a sweep to the target is needed or not
Compare ==
    /\ tpc = "compare"
    /\ IF Abs(pers_field - field) > 0
       THEN waitNo' = 2 /\ tpc' = "sweep"
       ELSE waitNo' = waitNo /\ tpc' = "heater_off"
    /\ UNCHANGED <<heater_state, activity, target_field, out_field, pers_field,
                   field_sweep_rate, sweepRate, perfResult, dbField,
                   should_stop>>
    /\ JobFrame /\ TaskInputs /\ RampFrame

\* perform, lines 79-95: after the wait on the sweep to the target
AfterTargetWait ==
    /\ tpc = "after_wait"
    /\ waitNo = 2
    /\ IF waitResult = "True"
       THEN /\ tpc' = "heater_off"
            /\ UNCHANGED <<perfResult, dbField, should_stop, nCancel, jobState>>
            /\ NoStop
       ELSE IF waitResult = "False"
       THEN /\ CancelAfterStop
            /\ tpc' = "done"
            /\ perfResult' = "None"
            /\ UNCHANGED <<dbField, should_stop>>
       ELSE IF waitResult = "InstrTimeoutError"
       THEN /\ dbField' = <<pers_field>>
            /\ should_stop' = TRUE
            /\ tpc' = "done"
            /\ perfResult' = "ValueError"
            /\ UNCHANGED <<nCancel, jobState>>
            /\ NoStop
       ELSE /\ tpc' = "done"
            /\ perfResult' = waitResult
            /\ UNCHANGED <<dbField, should_stop, nCancel, jobState>>
            /\ NoStop
    /\ UNCHANGED <<target_field, out_field, pers_field, field_sweep_rate,
                   waitNo, sweepRate, waitNum, waitDen, elapsed, nSleep,
                   nCheck, nPoll, nTimeout, waitResult>>
    /\ TaskInputs /\ RampFrame

\* perform, lines 97-102 and 106: the heater is switched off and the output
\* swept to zero, or the field is recorded at once
HeaterOff ==
    /\ tpc = "heater_off"
    /\ IF auto_stop_heater
       THEN /\ heater_state' = "Off"
            /\ waitNo' = 3
            /\ tpc' = "sweep"
            /\ UNCHANGED <<dbField, perfResult>>
       ELSE /\ dbField' = <<field>>
            /\ perfResult' = "None"
            /\ tpc' = "done"
            /\ UNCHANGED <<heater_state, waitNo>>
    /\ UNCHANGED <<activity, target_field, out_field, pers_field,
                   field_sweep_rate, sweepRate, should_stop>>
    /\ JobFrame /\ TaskInputs /\ RampFrame

\* perform, lines 103-106: the result of the wait on the sweep to zero is
\* dropped and the field recorded
AfterZeroWait ==
    /\ tpc = "after_wait"
    /\ waitNo = 3
    /\ IF waitResult \in {"True", "False"}
       THEN dbField' = <<field>> /\ perfResult' = "None"
       ELSE dbField' = dbField /\ perfResult' = waitResult
    /\ tpc' = "done"
    /\ UNCHANGED <<heater_state, activity, target_field, out_field, pers_field,
                   field_sweep_rate, waitNo, sweepRate, should_stop>>
    /\ JobFrame /\ TaskInputs /\ RampFrame

MagNext ==
    \/ PerformStart
    \/ SweepStart
    \/ SweepMakeJob
    \/ WaitSleep
    \/ WaitCancelled
    \/ WaitTimedOut
    \/ WaitChecked
    \/ AfterPersistentWait
    \/ Compare
    \/ AfterTargetWait
    \/ HeaterOff
    \/ AfterZeroWait
    \/ HwSweep
    \/ MagSetStop

JobInit == MagInit /\ RampIdle /\ OwnIdle /\ AdwIdle

JobNext == MagNext

JobSpec == JobInit /\ [][JobNext]_vars

\* the steps of the thread that runs perform
PerformNext ==
    \/ PerformStart
    \/ SweepStart
    \/ SweepMakeJob
    \/ WaitSleep
    \/ WaitCancelled
    \/ WaitTimedOut
    \/ WaitChecked
    \/ AfterPersistentWait
    \/ Compare
    \/ AfterTargetWait
    \/ HeaterOff
    \/ AfterZeroWait

\* the thread that runs perform keeps running: time.sleep returns and the
\* instrument answers. Nothing is assumed of the supply's sweep or of the stop
\* signal.
JobLive == JobInit /\ [][JobNext]_vars /\ WF_vars(PerformNext)

\* ------------------------------------------- claims on the Job and the sweep
\* C6: when the deadline of a wait elapses with no interruption and the target
\* not reached, on_timeout has been called exactly once, the Job is TimedOut
\* and the wait has ended by raising the timeout error
C6_TimeoutRecovery ==
    (nTimeout > 0 /\ ~is_target_reached) =>
        /\ nTimeout = 1
        /\ jobState = "TimedOut"
        /\ waitResult = "InstrTimeoutError"

\* C7: for one Job, on_cancel and on_timeout are called at most once in total,
\* also when perform calls job.cancel() after the wait has returned False
C7_AtMostOnceRecovery == nCancel + nTimeout <= 1

C7_Witness ==
    /\ tpc = "done"
    /\ waitNo = 2
    /\ waitResult = "False"
    /\ perfResult = "None"
    /\ jobState = "Cancelled"
    /\ nCancel = 1

\* C8: when a wait on a sweep Job has ended by timeout and the failure has
\* reached the caller, the supply is in Hold, the switch heater is Off and the
\* timeout handler has raised no error of its own
C8_TimedOutSweepSafe ==
    (tpc = "done" /\ nTimeout > 0) =>
        /\ activity = "Hold"
        /\ heater_state = "Off"
        /\ waitResult = "InstrTimeoutError"

\* C9: a poll of wait_for_completion made with the stop signal set calls
\* on_cancel (the supply goes to Hold), marks the Job Cancelled and returns
\* False, without evaluating completion_check or calling on_timeout; so the
\* first poll after the signal is set ends the wait
C9_CooperativeCancel ==
    [][(tpc = "wait_poll" /\ should_stop /\ tpc' # "wait_poll") =>
          /\ jobState' = "Cancelled"
          /\ waitResult' = "False"
          /\ nCancel' = nCancel + 1
          /\ nTimeout' = nTimeout
          /\ nCheck' = nCheck
          /\ activity' = "Hold"]_vars

C9_Witness ==
    /\ jobState = "Cancelled"
    /\ waitResult = "False"
    /\ nCancel = 1
    /\ nSleep >= 2
    /\ nCheck = nSleep - 1
    /\ activity = "Hold"

\* C10: a poll made with no stop signal, the deadline not passed and the
\* output at the target completes the wait: the Job is Completed, True is
\* returned after as many sleeps as polls, completion_check having been
\* evaluated at each of them, and neither on_cancel nor on_timeout was called
C10_NormalCompletion ==
    /\ [](jobState = "Completed" =>
             /\ waitResult = "True"
             /\ nSleep >= 1
             /\ nCheck = nSleep
             /\ nCancel = 0
             /\ nTimeout = 0)
    /\ [][(/\ tpc = "wait_poll"
           /\ ~should_stop
           /\ ~DeadlinePassed
           /\ out_field = target_field
           /\ tpc' # "wait_poll") =>
             /\ jobState' = "Completed"
             /\ waitResult' = "True"
             /\ nSleep' = nSleep
             /\ nCheck' = nSleep]_vars

C10_Witness ==
    /\ jobState = "Completed"
    /\ waitResult = "True"
    /\ nSleep = 3
    /\ nCheck = 3
    /\ nCancel = 0
    /\ nTimeout = 0


Waiting == tpc \in {"wait_sleep", "wait_poll"}

C12_WriteThenRaise ==
    (tpc = "done" /\ nTimeout > 0 /\ ~is_target_reached) =>
        /\ perfResult \notin {"running", "None"}
        /\ dbField = <<pers_field>>

C17_DeadlineNotExceeded ==
    nTimeout > 0 =>
        /\ elapsed <= WaitTimeout
        /\ elapsed * waitDen <= waitNum

\* C17: a wait that times out is declared timed out at the first poll made
\* after the smaller of the timeout argument (60 s) and the Job's
\* timeout_seconds (60*span/rate s) has elapsed, that is more than that
\* deadline and at most one refresh_time (3 s, or 10 s for the sweep to the
\* target) after it
C17_EffectiveDeadline ==
    nTimeout > 0 =>
        LET before == elapsed - (IF waitNo = 2 THEN RefreshLong ELSE RefreshShort)
        IN  /\ elapsed > WaitTimeout \/ elapsed * waitDen > waitNum
            /\ before <= WaitTimeout
            /\ before * waitDen <= waitNum

C17_Witness ==
    /\ nTimeout = 1
    /\ waitNo = 2
    /\ elapsed = WaitTimeout + RefreshLong
    /\ waitNum > WaitTimeout * waitDen
    /\ nCheck = 6

\* C18: at every point of a wait the number of evaluations of completion_check
\* and the number of evaluations of is_interrupted are at most the number of
\* sleeps performed
C18_NoBusySpin ==
    /\ nCheck <= nSleep
    /\ nPoll <= nSleep

C18_Witness ==
    /\ tpc = "wait_sleep"
    /\ nSleep = 5
    /\ nPoll = 5
    /\ nCheck = 5
    /\ jobState = "Pending"

\* C23: within one poll the checks run in the order interruption, timeout,
\* completion: a poll made with the stop signal set ends Cancelled/False, and
\* a poll made without it after the deadline ends TimedOut, whatever
\* completion_check would return, and completion_check is evaluated in
\* neither case
C23_CheckOrder ==
    [][(tpc = "wait_poll" /\ tpc' # "wait_poll") =>
          IF should_stop
          THEN /\ jobState' = "Cancelled"
               /\ waitResult' = "False"
               /\ nCheck' = nCheck
          ELSE DeadlinePassed =>
               /\ jobState' = "TimedOut"
               /\ nCheck' = nCheck]_vars

\* C24: the switch heater goes from Off to On only after the wait on the
\* sweep to the persistent field has returned True, the output then matching
\* the persistent field; when that wait was interrupted the heater stays Off
\* and perform ends without a sweep to the target
C24_HeaterInterlock ==
    /\ [][(heater_state = "Off" /\ heater_state' = "On") =>
             /\ waitNo = 1
             /\ waitResult = "True"
             /\ jobState = "Completed"
             /\ out_field = pers_field]_vars
    /\ []((waitNo = 1 /\ waitResult = "False") =>
             /\ heater_state = "Off"
             /\ tpc \in {"after_wait", "done"})

C24_Witness ==
    /\ heater_state = "On"
    /\ waitNo = 1
    /\ waitResult = "True"
    /\ tpc = "compare"
    /\ nSleep >= 2
    /\ out_field = pers_field

\* C26: a sweep_to_field call that fails before its Job is built leaves the
\* supply not sweeping
C26_NoUnsupervisedSweep ==
    perfResult = "ZeroDivisionError" => activity # "To set point"

\* ------------------------- two parallel ramp tasks on one driver (dc_tasks.py)
OwnFrame == UNCHANGED <<rampVars, magVars, adwVars>>

\* both tasks are about to run i_perform, each in its own thread
\* (parallel = {'activated': True, 'pool': 'instr'})
OwnInit ==
    /\ owner \in {"none", "A"}
    /\ opc = [t \in Tasks |-> "start"]
    /\ oleft \in [Tasks -> 1..MaxCalls]
    /\ ramping = {}
    /\ interleaved = FALSE
    /\ foreign = FALSE

\* lines 104-105 (202-203): if self.driver.owner != self.name:
\* self.driver.owner = self.name
OwnClaim ==
    \E t \in Tasks :
        /\ opc[t] = "start"
        /\ owner' = IF owner # t THEN t ELSE owner
        /\ opc' = [opc EXCEPT ![t] = "read"]
        /\ UNCHANGED <<oleft, ramping, interleaved, foreign>>
        /\ OwnFrame

\* line 113 (211): current_value = getattr(self.driver, 'voltage')
OwnRead ==
    \E t \in Tasks :
        /\ opc[t] = "read"
        /\ foreign' = (foreign \/ owner # t)
        /\ opc' = [opc EXCEPT ![t] = "ramp"]
        /\ UNCHANGED <<owner, oleft, ramping, interleaved>>
        /\ OwnFrame

\* one setter call of smooth_set (lines 158, 171, 178); between two calls the
\* thread sleeps or may be descheduled
OwnSetter ==
    \E t \in Tasks :
        /\ opc[t] = "ramp"
        /\ foreign' = (foreign \/ owner # t)
        /\ interleaved' = (interleaved \/ ramping \ {t} # {})
        /\ ramping' = ramping \cup {t}
        /\ oleft' = [oleft EXCEPT ![t] = oleft[t] - 1]
        /\ opc' = [opc EXCEPT ![t] = IF oleft[t] = 1 THEN "return" ELSE "ramp"]
        /\ UNCHANGED owner
        /\ OwnFrame

\* smooth_set and i_perform return
OwnReturn ==
    \E t \in Tasks :
        /\ opc[t] = "return"
        /\ ramping' = ramping \ {t}
        /\ opc' = [opc EXCEPT ![t] = "done"]
        /\ UNCHANGED <<owner, oleft, interleaved, foreign>>
        /\ OwnFrame

OwnerNext ==
    \/ OwnClaim
    \/ OwnRead
    \/ OwnSetter
    \/ OwnReturn

OwnerInit == OwnInit /\ RampIdle /\ MagIdle /\ AdwIdle /\ should_stop = FALSE

OwnerSpec == OwnerInit /\ [][OwnerNext]_vars

\* C22: the commands of two tasks run against one driver do not interleave:
\* no setter call of a task is made while another task is between its first
\* setter call and its return, and every command is issued by the task that
\* driver.owner names
C22_ExclusiveAccess == ~interleaved /\ ~foreign

\* ------------------------------------------ Adwin.set_voltage (adwin.py)
AdwFrame == UNCHANGED <<rampVars, magVars, ownVars>>

\* distance of v to DAC code i of linspace(-V_range, V_range, 2**resolution),
\* scaled by AdwBins - 1
BinDist(v, i) == Abs((v + AdwRange) * (AdwBins - 1) - 2 * AdwRange * i)

\* Adwin.convert_V_to_bin: np.argmin, the first of the nearest codes
convert_V_to_bin(v) ==
    CHOOSE i \in 0..(AdwBins - 1) :
        /\ \A j \in 0..(AdwBins - 1) : BinDist(v, i) <= BinDist(v, j)
        /\ \A j \in 0..(i - 1) : BinDist(v, j) > BinDist(v, i)

AdwInit ==
    /\ adwVoltage \in -(AdwRange + 1)..(AdwRange + 1)
    /\ adwChannel \in 1..2
    /\ apc = "start"
    /\ par11 = 0
    /\ par12 = 0
    /\ par13 = 0
    /\ par14 = 0
    /\ procRunning = FALSE
    /\ nAdwPoll = 0
    /\ adwDb = <<>>

\* set_voltage, lines 83-91: the parameters are set and process 1 started
AdwStart ==
    /\ apc = "start"
    /\ par11' = 1
    /\ par12' = adwChannel
    /\ par13' = convert_V_to_bin(adwVoltage)
    /\ par14' = 1
    /\ procRunning' = TRUE
    /\ apc' = "poll"
    /\ UNCHANGED <<adwVoltage, adwChannel, nAdwPoll, adwDb>>
    /\ AdwFrame

\* set_voltage, lines 93-99, and perform, line 112: Par 14 is read; 1 sends the
\* loop to sleep, anything else stops the process, set_voltage returns and
\* perform records the value
AdwPoll ==
    /\ apc = "poll"
    /\ nAdwPoll' = Bump(nAdwPoll)
    /\ IF par14 = 1
       THEN /\ apc' = "sleep"
            /\ UNCHANGED <<procRunning, adwDb>>
       ELSE /\ procRunning' = FALSE
            /\ adwDb' = <<adwVoltage>>
            /\ apc' = "done"
    /\ UNCHANGED <<adwVoltage, adwChannel, par11, par12, par13, par14>>
    /\ AdwFrame

\* set_voltage, line 96: time.sleep(1 / refresh_rate)
AdwSleep ==
    /\ apc = "sleep"
    /\ apc' = "poll"
    /\ UNCHANGED <<adwVoltage, adwChannel, par11, par12, par13, par14,
                   procRunning, nAdwPoll, adwDb>>
    /\ AdwFrame

\* the onboard process ends and clears Par 14
AdwFlagClears ==
    /\ procRunning
    /\ par14 = 1
    /\ par14' = 0
    /\ UNCHANGED <<adwVoltage, adwChannel, apc, par11, par12, par13,
                   procRunning, nAdwPoll, adwDb>>
    /\ AdwFrame

\* the steps of the thread that runs perform
AdwSteps ==
    \/ AdwStart
    \/ AdwPoll
    \/ AdwSleep

AdwNext ==
    \/ AdwStart
    \/ AdwPoll
    \/ AdwSleep
    \/ AdwFlagClears

AdwinInit == AdwInit /\ RampIdle /\ MagIdle /\ OwnIdle /\ should_stop \in BOOLEAN

\* the thread that runs perform keeps running; nothing is assumed of the
\* onboard process
AdwLive == AdwinInit /\ [][AdwNext]_vars /\ WF_vars(AdwSteps)

\* C29: Adwin.set_voltage ends in every execution, also when Par 14 never
\* clears
C29_AdwinWaitEnds == <>(apc = "done")

=============================================================================
